---- MODULE Spec2Model ----
(***************************************************************************)
(* Model of src/main.js: the key-derivation glue functions, the two        *)
(* transaction signers, the signer recovery, and the Vue instance          *)
(* (data, methods, watchers) that wires them together.                     *)
(*                                                                         *)
(* Representation.  A JavaScript string is a sequence of one-character     *)
(* strings, a Buffer is a sequence of bytes (0..255); "" and an empty      *)
(* Buffer are both <<>>.  A mnemonic string is the sequence of its words.  *)
(* A JavaScript object is a record whose DOMAIN is the set of fields it    *)
(* has; {} is the record with no field.  A call that may throw returns     *)
(* Ok(value) or Throw(message).                                            *)
(*                                                                         *)
(* The imported libraries (bip39, ethereumjs-wallet, js-sha3,              *)
(* @ethereumjs/tx) are modelled by what they compute, over parameters      *)
(* small enough to enumerate: a 4-word wordlist, a sponge over a 15-bit     *)
(* state for Keccak-256, and the curve y^2 = x^3 + 3 over F_7 (prime       *)
(* order 13) for secp256k1.  Widths that the glue code depends on are      *)
(* kept: 32-byte private keys, 64-byte public keys, 32-byte digests,       *)
(* 20-byte addresses.                                                      *)
(***************************************************************************)
EXTENDS Integers, Sequences, FiniteSets, TLC

\* The longest mnemonic (in words) typed into the mnemonic field.
MaxTypedWords == 2
\* The chain identifiers a caller supplies with a payload are 1..MaxChainId.
MaxChainId == 3

(***************************************************************************)
(* Results of calls that may throw.                                        *)
(***************************************************************************)
Ok(v) == [threw |-> FALSE, val |-> v, msg |-> ""]
Throw(m) == [threw |-> TRUE, val |-> <<>>, msg |-> m]

\* The rest of a function body after a call: skipped, the exception passed
\* on, when the call threw.
Then(result, Rest(_)) == IF result.threw THEN result ELSE Rest(result.val)

\* A table is a set of <<argument, value>> pairs: the values of a function
\* on the arguments the model draws, computed once.  Lookup is the table's
\* value for arg.
Lookup(table, arg) == (CHOOSE e \in table : e[1] = arg)[2]

(***************************************************************************)
(* Buffers and hex strings.                                                *)
(***************************************************************************)
HexDigits == <<"0", "1", "2", "3", "4", "5", "6", "7", "8", "9", "a", "b", "c", "d", "e", "f">>

\* Buffer.prototype.toString('hex'): two lowercase hex digits per byte.
BufToHex(buf) ==
    [i \in 1..(2 * Len(buf)) |->
        IF i % 2 = 1 THEN HexDigits[(buf[(i + 1) \div 2] \div 16) + 1]
        ELSE HexDigits[(buf[i \div 2] % 16) + 1]]

\* String.prototype.substring(start, end): characters start..end-1, 0-based.
substring(str, start, end) == SubSeq(str, start + 1, end)

Zeros(k) == [i \in 1..k |-> 0]

\* setLengthLeft(buf, 32): a scalar as a 32-byte big-endian Buffer.
Pad32(x) == Zeros(31) \o <<x>>

\* unpadBuffer: the Buffer without its leading zero bytes.
unpadBuffer(buf) ==
    LET nz == {i \in 1..Len(buf) : buf[i] # 0}
    IN  IF nz = {} THEN <<>>
        ELSE SubSeq(buf, CHOOSE i \in nz : \A j \in nz : i <= j, Len(buf))

\* a < b for two big-endian quantities.
BufLess(a, b) ==
    LET ua == unpadBuffer(a)
        ub == unpadBuffer(b)
        diff == {i \in 1..Len(ua) : ua[i] # ub[i]}
    IN  IF Len(ua) # Len(ub) THEN Len(ua) < Len(ub)
        ELSE IF diff = {} THEN FALSE
        ELSE LET first == CHOOSE i \in diff : \A j \in diff : i <= j
             IN  ua[first] < ub[first]

\* <<h, w>> for bytes lo..hi of buf: h is the value of the bytes read as
\* digits in the given radix (each plus salt) modulo m, w is radix^(hi-lo+1)
\* modulo m.  Halving keeps the evaluation shallow.
RECURSIVE Digits(_, _, _, _, _, _)
Digits(buf, lo, hi, radix, salt, m) ==
    IF lo = hi THEN <<(buf[lo] + salt) % m, radix % m>>
    ELSE LET mid == (lo + hi) \div 2
             left == Digits(buf, lo, mid, radix, salt, m)
             right == Digits(buf, mid + 1, hi, radix, salt, m)
         IN  <<(left[1] * right[2] + right[1]) % m, (left[2] * right[2]) % m>>

\* The big-endian value of buf modulo m.
BufMod(buf, m) == IF Len(buf) = 0 THEN 0 ELSE Digits(buf, 1, Len(buf), 256, 0, m)[1]

(***************************************************************************)
(* js-sha3 / ethereum-cryptography Keccak-256: a sponge that absorbs the   *)
(* message into its state and squeezes a digest out of it.                 *)
(***************************************************************************)
\* The state after absorbing buf into state st: st * 31^len + sum of
\* (byte + 7) * 31^(len - i), modulo 32749.
Absorb(buf, st) ==
    IF Len(buf) = 0 THEN st
    ELSE LET d == Digits(buf, 1, Len(buf), 31, 7, 32749)
         IN  (st * d[2] + d[1]) % 32749

Squeeze(st, len) == [i \in 1..len |-> ((st + i) * ((st % 251) + i * i + 3)) % 256]

\* keccak256 of @ethereumjs/util: Buffer -> 32-byte Buffer.
keccak256Buf(buf) == Squeeze(Absorb(buf, Len(buf)), 32)

(***************************************************************************)
(* secp256k1: points are <<x, y>>, the point at infinity is <<>>.          *)
(***************************************************************************)
curve == [p |-> 7, b |-> 3, n |-> 13, G |-> <<1, 2>>]

InvMod(a, m) == CHOOSE i \in 1..(m - 1) : (a * i) % m = 1

PointAdd(P, Q) ==
    IF P = <<>> THEN Q
    ELSE IF Q = <<>> THEN P
    ELSE IF P[1] = Q[1] /\ (P[2] + Q[2]) % curve.p = 0 THEN <<>>
    ELSE LET p == curve.p
             lam == IF P = Q
                    THEN (3 * P[1] * P[1] * InvMod((2 * P[2]) % p, p)) % p
                    ELSE ((Q[2] - P[2] + p) * InvMod((Q[1] - P[1] + p) % p, p)) % p
             x3 == (lam * lam + 2 * p - P[1] - Q[1]) % p
             y3 == (lam * (P[1] - x3 + p) + p - P[2]) % p
         IN  <<x3, y3>>

RECURSIVE ScalarMul(_, _)
ScalarMul(k, P) == IF k = 0 THEN <<>> ELSE PointAdd(P, ScalarMul(k - 1, P))

\* A private key is valid when it is 32 bytes and its value is in 1..n-1.
isValidPrivate(key) ==
    /\ Len(key) = 32
    /\ SubSeq(key, 1, 31) = Zeros(31)
    /\ key[32] \in 1..(curve.n - 1)

\* The 64-byte uncompressed public key X || Y (no format byte) of a point.
PointToPub(P) == Pad32(P[1]) \o Pad32(P[2])

\* privateToPublic.
privateToPublic(key) == PointToPub(ScalarMul(key[32], curve.G))

\* The message hash as a scalar.
HashToScalar(hash) == BufMod(hash, curve.n)

\* ecdsaSign: deterministic nonce (RFC 6979), retried while r or s is 0;
\* s is normalised to the lower half and the recovery bit flipped with it.
\* ecdsaAttempt is one attempt, with the nonce the attempt number selects.
ecdsaAttempt(z, d, attempt) ==
    LET n == curve.n
        k == 1 + ((3 * z + 5 * d + attempt) % (n - 1))
        R == ScalarMul(k, curve.G)
        r == R[1] % n
        s == (InvMod(k, n) * (z + r * d)) % n
        recid == R[2] % 2
    IN  IF 2 * s > n THEN [r |-> r, s |-> n - s, recid |-> 1 - recid]
        ELSE [r |-> r, s |-> s, recid |-> recid]

RECURSIVE ecdsaSignFrom(_, _, _)
ecdsaSignFrom(z, d, attempt) ==
    IF ecdsaAttempt(z, d, attempt).r = 0 \/ ecdsaAttempt(z, d, attempt).s = 0
    THEN ecdsaSignFrom(z, d, attempt + 1)
    ELSE ecdsaAttempt(z, d, attempt)

ecdsaSign(hash, key) == ecdsaSignFrom(HashToScalar(hash), key[32], 0)

\* ecdsaRecover: the public key Q = r^-1 (s R - z G), R the point with
\* x-coordinate r and the parity the recovery bit names.
ecdsaRecover(hash, recid, r, s) ==
    LET n == curve.n
        p == curve.p
        z == HashToScalar(hash)
        ys == {y \in 0..(p - 1) : (y * y) % p = (r * r * r + curve.b) % p /\ y % 2 = recid}
    IN  IF r \notin 1..(n - 1) \/ s \notin 1..(n - 1) \/ r >= p \/ ys = {} THEN Throw("Invalid Signature")
        ELSE LET R == <<r, CHOOSE y \in ys : TRUE>>
                 ri == InvMod(r, n)
                 Q == PointAdd(ScalarMul((ri * s) % n, R),
                               ScalarMul((n - ((ri * z) % n)) % n, curve.G))
             IN  IF Q = <<>> THEN Throw("Invalid Signature") ELSE Ok(PointToPub(Q))

(***************************************************************************)
(* bip39: mnemonics over a wordlist, with an embedded checksum.            *)
(***************************************************************************)
bip39 == [wordlist |-> <<"abandon", "ability", "able", "about">>, words |-> 2, bitsPerWord |-> 2, checksumBits |-> 1]

\* The words a mnemonic string may be made of, with their UTF-8 bytes;
\* "zzz" is not in the wordlist.
UTF8(word) ==
    CASE word = "abandon" -> <<97, 98, 97, 110, 100, 111, 110>>
      [] word = "ability" -> <<97, 98, 105, 108, 105, 116, 121>>
      [] word = "able" -> <<97, 98, 108, 101>>
      [] word = "about" -> <<97, 98, 111, 117, 116>>
      [] word = "zzz" -> <<122, 122, 122>>

\* The bytes of the mnemonic string: its words joined by single spaces.
RECURSIVE MnemonicBytes(_)
MnemonicBytes(m) ==
    IF m = <<>> THEN <<>>
    ELSE IF Len(m) = 1 THEN UTF8(m[1])
    ELSE UTF8(m[1]) \o <<32>> \o MnemonicBytes(Tail(m))

RECURSIVE Pow(_, _)
Pow(base, e) == IF e = 0 THEN 1 ELSE base * Pow(base, e - 1)

EntropyBits == bip39.words * bip39.bitsPerWord - bip39.checksumBits
Entropies == 0..(Pow(2, EntropyBits) - 1)

\* deriveChecksumBits: the leading bits of the hash of the entropy.
deriveChecksumBits(entropy) ==
    Squeeze(Absorb(<<entropy>>, 1), 1)[1] \div Pow(2, 8 - bip39.checksumBits)

WordIndex(word) == CHOOSE i \in 1..Len(bip39.wordlist) : bip39.wordlist[i] = word

\* entropyToMnemonic: entropy || checksum cut into word indices.
entropyToMnemonic(entropy) ==
    LET bits == entropy * Pow(2, bip39.checksumBits) + deriveChecksumBits(entropy)
        radix == Pow(2, bip39.bitsPerWord)
    IN  [i \in 1..bip39.words |-> bip39.wordlist[((bits \div Pow(radix, bip39.words - i)) % radix) + 1]]

\* BIP39.generateMnemonic(): the mnemonics of all entropies.
GeneratedMnemonics == {entropyToMnemonic(e) : e \in Entropies}

\* The mnemonic strings typed into the field: up to MaxTypedWords words,
\* each a wordlist word or not.
TypedWords == {"ability", "zzz"}
TypedInputs == UNION {[1..k -> TypedWords] : k \in 0..MaxTypedWords}

MnemonicInputs == GeneratedMnemonics \cup TypedInputs

RECURSIVE WordsToBits(_, _)
WordsToBits(m, acc) ==
    IF m = <<>> THEN acc
    ELSE WordsToBits(Tail(m), acc * Pow(2, bip39.bitsPerWord) + (WordIndex(Head(m)) - 1))

\* BIP39.validateMnemonic: every word in the wordlist, the right number of
\* words, and the checksum of the entropy equal to the embedded one.
validateMnemonic(m) ==
    /\ \A i \in 1..Len(m) : \E j \in 1..Len(bip39.wordlist) : bip39.wordlist[j] = m[i]
    /\ Len(m) = bip39.words
    /\ LET bits == WordsToBits(m, 0)
       IN  deriveChecksumBits(bits \div Pow(2, bip39.checksumBits)) = bits % Pow(2, bip39.checksumBits)

\* PBKDF2 over the mnemonic string with the salt "mnemonic"; 64 bytes.
pbkdf2(m) ==
    Squeeze(Absorb(<<109, 110, 101, 109, 111, 110, 105, 99>>, Absorb(MnemonicBytes(m), 2048)), 64)

Seeds == {<<m, pbkdf2(m)>> : m \in MnemonicInputs}

\* BIP39.mnemonicToSeed(mnemonic, "").  The mnemonic is not validated.
mnemonicToSeed(m) == Lookup(Seeds, m)

(***************************************************************************)
(* ethereumjs-wallet: hdkey and Wallet.                                    *)
(***************************************************************************)
\* m/44'/60'/0'/0/0 as <<index, hardened>> segments.
hdPath == << <<44, 1>>, <<60, 1>>, <<0, 1>>, <<0, 0>>, <<0, 0>> >>

RECURSIVE derivePath(_, _)
derivePath(node, path) ==
    IF path = <<>> THEN node ELSE derivePath(Absorb(Head(path), node), Tail(path))

\* The private key of the node at path under the master node of seed: a
\* 32-byte valid private key.
hdDerive(seed, path) ==
    Pad32(1 + (derivePath(Absorb(seed, 512), path) % (curve.n - 1)))

HDKeys == {<<<<s[2], hdPath>>, hdDerive(s[2], hdPath)>> : s \in Seeds}

\* hdkey.fromMasterSeed(seed).derivePath(path).getWallet().getPrivateKey()
hdPrivateKey(seed, path) == Lookup(HDKeys, <<seed, path>>)

\* Private keys: "" (privKey before any mnemonic), and the 32-byte keys of
\* value 0..n, of which 0 and n fail the validity check.
KeyInputs == {<<>>} \cup {Pad32(d) : d \in 0..curve.n}
ValidKeys == {k \in KeyInputs : isValidPrivate(k)}

\* Wallet.fromPrivateKey: the key is checked, the public key is its point.
fromPrivateKey(key) ==
    IF isValidPrivate(key) THEN Ok(privateToPublic(key))
    ELSE Throw("Private key does not satisfy the curve requirements (ie. it is invalid)")

PublicKeys == {<<k, fromPrivateKey(k)>> : k \in KeyInputs}

\* Wallet.fromPrivateKey(privKey).getPublicKey()
walletPublicKey(key) == Lookup(PublicKeys, key)

PublicKeyDigests == {<<privateToPublic(k), BufToHex(keccak256Buf(privateToPublic(k)))>> : k \in ValidKeys}

\* keccak256 of js-sha3: Buffer -> 64-character lowercase hex string.
keccak256(buf) == Lookup(PublicKeyDigests, buf)

(***************************************************************************)
(* The functions of main.js.                                               *)
(***************************************************************************)
generateSeed(mnemonicStr) == mnemonicToSeed(mnemonicStr)

generatePrivKey(mnemonicStr) == hdPrivateKey(generateSeed(mnemonicStr), hdPath)

derivePubKey(key) == walletPublicKey(key)

\* deriveEthAddress cutting 20 characters instead of 20 bytes.
deriveEthAddress_last20chars(pub) ==
    LET address == keccak256(pub)
    IN  <<"0", "x">> \o substring(address, Len(address) - 20, Len(address))

deriveEthAddress(pub) ==
    LET address == keccak256(pub)
    IN  <<"0", "x">> \o substring(address, Len(address) - 40, Len(address))

(***************************************************************************)
(* @ethereumjs/common and @ethereumjs/tx.                                   *)
(***************************************************************************)
\* new Common({ chain, hardfork })
Common(chain, hardfork) == [chainId |-> chain, hardfork |-> hardfork]

\* The Common a transaction gets when its options carry none: Mainnet at
\* the library's default hardfork.
DefaultCommon == Common(1, "merge")

isActivatedEIP1559(common) == common.hardfork \in {"london", "merge"}

\* toBuffer(txData[f]): the field's bytes, the empty Buffer when the field
\* is undefined.
Field(obj, f) == IF f \in DOMAIN obj THEN obj[f] ELSE <<>>

\* Transaction.fromTxData(txData, opts): the legacy constructor.  It reads
\* opts.common only, takes the chain from the Common (a chainId in txData
\* is no field of a legacy transaction), and reads every absent field as 0.
TransactionFromTxData(txData, opts) ==
    LET common == IF "common" \in DOMAIN opts THEN opts.common ELSE DefaultCommon
    IN  Ok([type |-> 0,
            nonce |-> Field(txData, "nonce"),
            gasPrice |-> Field(txData, "gasPrice"),
            gasLimit |-> Field(txData, "gasLimit"),
            to |-> Field(txData, "to"),
            value |-> Field(txData, "value"),
            data |-> Field(txData, "data"),
            chainId |-> common.chainId])

\* FeeMarketEIP1559Transaction.fromTxData(txData, opts): the chain is
\* txData.chainId when given (it must agree with opts.common when that is
\* given too), else the Common's; absent fields are read as 0.
FeeMarketFromTxData(txData, opts) ==
    LET hasCommon == "common" \in DOMAIN opts
        common == IF hasCommon THEN opts.common
                  ELSE IF "chainId" \in DOMAIN txData THEN Common(txData.chainId, DefaultCommon.hardfork)
                  ELSE DefaultCommon
    IN  IF hasCommon /\ "chainId" \in DOMAIN txData /\ txData.chainId # opts.common.chainId
        THEN Throw("The chain ID does not match the chain ID of Common")
        ELSE IF ~isActivatedEIP1559(common)
        THEN Throw("EIP-1559 not enabled on Common")
        ELSE IF BufLess(Field(txData, "maxFeePerGas"), Field(txData, "maxPriorityFeePerGas"))
        THEN Throw("maxFeePerGas cannot be less than maxPriorityFeePerGas")
        ELSE Ok([type |-> 2,
                 chainId |-> common.chainId,
                 nonce |-> Field(txData, "nonce"),
                 maxPriorityFeePerGas |-> Field(txData, "maxPriorityFeePerGas"),
                 maxFeePerGas |-> Field(txData, "maxFeePerGas"),
                 gasLimit |-> Field(txData, "gasLimit"),
                 to |-> Field(txData, "to"),
                 value |-> Field(txData, "value"),
                 data |-> Field(txData, "data"),
                 accessList |-> <<>>])

\* RLP of one byte string: its length, then its bytes.
RlpItem(buf) == <<Len(buf)>> \o buf

\* RLP of a quantity: the byte string without leading zeros.
RlpQuantity(buf) == RlpItem(unpadBuffer(buf))

\* tx.getMessageToSign(true): the hash of the unsigned encoding.  Legacy
\* (EIP-155): [nonce, gasPrice, gasLimit, to, value, data, chainId, 0, 0];
\* fee market: 0x02 || [chainId, nonce, maxPriorityFeePerGas, maxFeePerGas,
\* gasLimit, to, value, data, accessList].
getMessageToSign(tx) ==
    IF tx.type = 0
    THEN keccak256Buf(RlpQuantity(tx.nonce) \o RlpQuantity(tx.gasPrice) \o RlpQuantity(tx.gasLimit)
                      \o RlpItem(tx.to) \o RlpQuantity(tx.value) \o RlpItem(tx.data)
                      \o RlpQuantity(<<tx.chainId>>) \o RlpQuantity(<<0>>) \o RlpQuantity(<<0>>))
    ELSE keccak256Buf(<<2>> \o RlpQuantity(<<tx.chainId>>) \o RlpQuantity(tx.nonce)
                      \o RlpQuantity(tx.maxPriorityFeePerGas) \o RlpQuantity(tx.maxFeePerGas)
                      \o RlpQuantity(tx.gasLimit) \o RlpItem(tx.to) \o RlpQuantity(tx.value)
                      \o RlpItem(tx.data) \o RlpItem(tx.accessList))

\* The recovery identifier v of a signature with recovery bit recid:
\* legacy (EIP-155) recid + chainId * 2 + 35, fee market recid.
SignatureV(tx, recid) == IF tx.type = 0 THEN recid + tx.chainId * 2 + 35 ELSE recid

\* The fields of tx with the v, r, s of a signature.
WithSignature(tx, sig) == tx @@ [v |-> SignatureV(tx, sig.recid), r |-> sig.r, s |-> sig.s]

\* tx.sign(privateKey): a new transaction object, the fields of tx with v, r, s.
txSign(tx, privateKey) ==
    IF Len(privateKey) # 32 THEN Throw("Private key must be 32 bytes in length.")
    ELSE IF ~isValidPrivate(privateKey) THEN Throw("Expected private key to be a valid scalar")
    ELSE Ok(WithSignature(tx, ecdsaSign(getMessageToSign(tx), privateKey)))

\* The recovery bit a signed transaction's v stands for.
RecoveryBit(tx) == IF tx.type = 0 THEN tx.v - (tx.chainId * 2 + 35) ELSE tx.v

\* publicToAddress: the last 20 bytes of the 32-byte digest of the public key.
publicToAddress(pub) == SubSeq(keccak256Buf(pub), 13, 32)

\* The Address (a 20-byte buffer) of the key that signed tx, recovered
\* from (hash, v, r, s).
recoverSender(tx) ==
    IF ~({"v", "r", "s"} \subseteq DOMAIN tx) THEN Throw("signedTx.getSenderAddress is not a function")
    ELSE IF RecoveryBit(tx) \notin {0, 1} \/ 2 * tx.s > curve.n THEN Throw("Invalid Signature")
    ELSE Then(ecdsaRecover(getMessageToSign(tx), RecoveryBit(tx), tx.r, tx.s),
              LAMBDA pub : Ok(publicToAddress(pub)))

\* data.sampleLegacyTransaction and data.sampleEIP1559Transaction; the hex
\* strings are given as the bytes they decode to.
SampleTo == <<49, 193, 192, 254, 197, 156, 235, 156, 190, 110, 196, 116, 195, 28, 29, 197, 182, 101, 85, 182>>
SampleData == <<127, 116, 101, 115, 116, 50>> \o Zeros(27) \o <<96, 0, 87>>

SampleLegacyTransaction ==
    [nonce |-> <<0>>, gasPrice |-> <<9, 24, 78, 114, 160, 0>>, gasLimit |-> <<39, 16>>,
     to |-> SampleTo, value |-> <<16>>, data |-> SampleData, chainId |-> 3]

SampleEIP1559Transaction ==
    [nonce |-> <<0>>, type |-> 2, maxPriorityFeePerGas |-> <<9, 24, 78, 114, 160, 0>>,
     maxFeePerGas |-> <<9, 24, 78, 114, 160, 0>>, gasLimit |-> <<39, 16>>,
     to |-> SampleTo, value |-> <<16>>, data |-> SampleData, chainId |-> 3]

\* Address.prototype.toString(): "0x" and the hex of the 20 bytes.  It
\* takes no argument: an encoding passed to it is ignored.
AddressToString(address) == <<"0", "x">> \o BufToHex(address)

\* Payloads: the two samples with each chain identifier and with none, and
\* the shape with neither gasPrice nor maxFeePerGas/maxPriorityFeePerGas.
Without(obj, f) == [g \in (DOMAIN obj) \ {f} |-> obj[g]]

LegacyPayloads ==
    {[SampleLegacyTransaction EXCEPT !.chainId = c] : c \in 1..MaxChainId}
        \cup {Without(SampleLegacyTransaction, "chainId")}
FeeMarketPayloads ==
    {[SampleEIP1559Transaction EXCEPT !.chainId = c] : c \in 1..MaxChainId}
        \cup {Without(SampleEIP1559Transaction, "chainId")}
FeelessPayloads == {Without(t, "gasPrice") : t \in LegacyPayloads}
PayloadInputs == LegacyPayloads \cup FeeMarketPayloads \cup FeelessPayloads

(***************************************************************************)
(* The signing functions of main.js.                                       *)
(***************************************************************************)
signLegacyTx(key, txData) ==
    LET txParams == Common(1, "istanbul")
    IN  Then(TransactionFromTxData(txData, [txParams |-> txParams]), LAMBDA tx : txSign(tx, key))

signEIP1559Tx(key, txData) ==
    LET txOptions == Common(1, "london")
    IN  Then(FeeMarketFromTxData(txData, [txOptions |-> txOptions]), LAMBDA tx : txSign(tx, key))

\* What the two signers return for the keys and payloads of the model.
SignedTransactions ==
    {tx.val : tx \in {signed \in {signLegacyTx(k, t) : k \in ValidKeys, t \in PayloadInputs}
                                  \cup {signEIP1559Tx(k, t) : k \in ValidKeys, t \in PayloadInputs} :
                        ~signed.threw}}

Senders == {<<tx, recoverSender(tx)>> : tx \in SignedTransactions}

\* tx.getSenderAddress()
getSenderAddress(tx) == Lookup(Senders, tx)

getSignerAddress(signedTx) ==
    Then(getSenderAddress(signedTx), LAMBDA address : Ok(<<"0", "x">> \o AddressToString(address)))

(***************************************************************************)
(* The Vue instance mnemonicVue: its data, and the bookkeeping of the run. *)
(***************************************************************************)
VARIABLES
    mnemonic, privKey, pubKey, ETHaddress,          \* data
    sampleLegacyTransaction, sampleEIP1559Transaction,
    signedLegacySample, signedEIP1559Sample,
    recoveredLegacyAddress, recoveredEIP1559Address,
    recoveredAddress,   \* the property the pubKey watcher writes; not in data
    queue,              \* the watchers scheduled to run, in the order they will
    lastError,          \* the error the last event handler ended with, "" if none
    call, out, signer   \* a direct call of one function: arguments, result,
                        \* and getSignerAddress of the result

dataVars == <<mnemonic, privKey, pubKey, ETHaddress, sampleLegacyTransaction,
              sampleEIP1559Transaction, signedLegacySample, signedEIP1559Sample,
              recoveredLegacyAddress, recoveredEIP1559Address, recoveredAddress>>
vueVars == <<dataVars, queue, lastError>>
callVars == <<call, out, signer>>
vars == <<vueVars, callVars>>

\* A property that was never assigned.
Undefined == <<"undefined">>

\* No call made, no result yet.
NoCall == [fn |-> "none", mnemonic |-> <<>>, privKey |-> <<>>, pubKey |-> <<>>, txData |-> <<>>]
Pending == [threw |-> FALSE, val |-> <<>>, msg |-> "pending"]

\* The watchers in the order they are created, which is the order a flush
\* runs them in.
WatcherIds == <<"mnemonic", "privKey", "pubKey", "signedLegacySample", "signedEIP1559Sample">>
WatcherId(w) == CHOOSE i \in 1..Len(WatcherIds) : WatcherIds[i] = w

\* Scheduling watcher w: nothing if it is already scheduled, else it is
\* inserted at the place of its id.
queueWatcher(q, w) ==
    IF \E i \in 1..Len(q) : q[i] = w THEN q
    ELSE SelectSeq(q, LAMBDA u : WatcherId(u) < WatcherId(w)) \o <<w>>
         \o SelectSeq(q, LAMBDA u : WatcherId(u) > WatcherId(w))

VueInit ==
    /\ mnemonic = <<>>
    /\ privKey = <<>>
    /\ pubKey = <<>>
    /\ ETHaddress = <<>>
    /\ sampleLegacyTransaction = SampleLegacyTransaction
    /\ sampleEIP1559Transaction = SampleEIP1559Transaction
    /\ signedLegacySample = <<>>
    /\ signedEIP1559Sample = <<>>
    /\ recoveredLegacyAddress = <<>>
    /\ recoveredEIP1559Address = <<>>
    /\ recoveredAddress = Undefined
    /\ queue = <<>>
    /\ lastError = ""

Init ==
    /\ VueInit
    /\ call = NoCall
    /\ out = Pending
    /\ signer = Pending

\* Event handlers run when no watcher is pending: the flush of the queue is
\* a microtask, which runs before the next event is handled.
Idle == queue = <<>>

\* The reactive setter of mnemonic: an equal string notifies nobody.
setMnemonic(val) ==
    /\ mnemonic' = val
    /\ queue' = IF val # mnemonic THEN queueWatcher(queue, "mnemonic") ELSE queue
    /\ lastError' = ""
    /\ UNCHANGED <<privKey, pubKey, ETHaddress, sampleLegacyTransaction, sampleEIP1559Transaction,
                   signedLegacySample, signedEIP1559Sample, recoveredLegacyAddress,
                   recoveredEIP1559Address, recoveredAddress, callVars>>

\* methods.generateNew
generateNew ==
    /\ Idle
    /\ \E m \in GeneratedMnemonics : setMnemonic(m)

\* The mnemonic field edited by hand.
inputMnemonic ==
    /\ Idle
    /\ \E val \in TypedInputs : setMnemonic(val)

\* signSampleLegacyTx storing the transaction before it is signed, so that a
\* throw of the signing leaves the unsigned transaction behind.
signSampleLegacyTx_partial ==
    /\ Idle
    /\ LET signed == signLegacyTx(privKey, sampleLegacyTransaction)
       IN  IF signed.threw
           THEN /\ lastError' = signed.msg
                /\ signedLegacySample' = TransactionFromTxData(sampleLegacyTransaction, <<>>).val
                /\ queue' = queueWatcher(queue, "signedLegacySample")
           ELSE /\ signedLegacySample' = signed.val
                /\ queue' = queueWatcher(queue, "signedLegacySample")
                /\ lastError' = ""
    /\ UNCHANGED <<mnemonic, privKey, pubKey, ETHaddress, sampleLegacyTransaction,
                   sampleEIP1559Transaction, signedEIP1559Sample, recoveredLegacyAddress,
                   recoveredEIP1559Address, recoveredAddress, callVars>>

\* methods.signSampleLegacyTx: a throw of signLegacyTx leaves the
\* assignment undone.
signSampleLegacyTx ==
    /\ Idle
    /\ LET signed == signLegacyTx(privKey, sampleLegacyTransaction)
       IN  IF signed.threw
           THEN /\ lastError' = signed.msg
                /\ UNCHANGED <<signedLegacySample, queue>>
           ELSE /\ signedLegacySample' = signed.val
                /\ queue' = queueWatcher(queue, "signedLegacySample")
                /\ lastError' = ""
    /\ UNCHANGED <<mnemonic, privKey, pubKey, ETHaddress, sampleLegacyTransaction,
                   sampleEIP1559Transaction, signedEIP1559Sample, recoveredLegacyAddress,
                   recoveredEIP1559Address, recoveredAddress, callVars>>

\* methods.signSampleEIP1559Tx
signSampleEIP1559Tx ==
    /\ Idle
    /\ LET signed == signEIP1559Tx(privKey, sampleEIP1559Transaction)
       IN  IF signed.threw
           THEN /\ lastError' = signed.msg
                /\ UNCHANGED <<signedEIP1559Sample, queue>>
           ELSE /\ signedEIP1559Sample' = signed.val
                /\ queue' = queueWatcher(queue, "signedEIP1559Sample")
                /\ lastError' = ""
    /\ UNCHANGED <<mnemonic, privKey, pubKey, ETHaddress, sampleLegacyTransaction,
                   sampleEIP1559Transaction, signedLegacySample, recoveredLegacyAddress,
                   recoveredEIP1559Address, recoveredAddress, callVars>>

\* watch.mnemonic whose assignment notifies no watcher of privKey.
watch_mnemonic_unnotified ==
    /\ queue # <<>> /\ Head(queue) = "mnemonic"
    /\ privKey' = generatePrivKey(mnemonic)
    /\ queue' = Tail(queue)
    /\ UNCHANGED <<mnemonic, pubKey, ETHaddress, sampleLegacyTransaction, sampleEIP1559Transaction,
                   signedLegacySample, signedEIP1559Sample, recoveredLegacyAddress,
                   recoveredEIP1559Address, recoveredAddress, lastError, callVars>>

\* watch.mnemonic; privKey gets a new Buffer, which always notifies.
watch_mnemonic ==
    /\ queue # <<>> /\ Head(queue) = "mnemonic"
    /\ privKey' = generatePrivKey(mnemonic)
    /\ queue' = queueWatcher(Tail(queue), "privKey")
    /\ UNCHANGED <<mnemonic, pubKey, ETHaddress, sampleLegacyTransaction, sampleEIP1559Transaction,
                   signedLegacySample, signedEIP1559Sample, recoveredLegacyAddress,
                   recoveredEIP1559Address, recoveredAddress, lastError, callVars>>

\* watch.privKey
watch_privKey ==
    /\ queue # <<>> /\ Head(queue) = "privKey"
    /\ LET derived == derivePubKey(privKey)
       IN  IF derived.threw
           THEN /\ lastError' = derived.msg
                /\ queue' = Tail(queue)
                /\ UNCHANGED pubKey
           ELSE /\ pubKey' = derived.val
                /\ queue' = queueWatcher(Tail(queue), "pubKey")
                /\ UNCHANGED lastError
    /\ UNCHANGED <<mnemonic, privKey, ETHaddress, sampleLegacyTransaction, sampleEIP1559Transaction,
                   signedLegacySample, signedEIP1559Sample, recoveredLegacyAddress,
                   recoveredEIP1559Address, recoveredAddress, callVars>>

\* watch.pubKey: sets ETHaddress, and recoveredAddress (which is neither
\* recoveredLegacyAddress nor recoveredEIP1559Address).
watch_pubKey ==
    /\ queue # <<>> /\ Head(queue) = "pubKey"
    /\ ETHaddress' = deriveEthAddress(pubKey)
    /\ recoveredAddress' = <<>>
    /\ queue' = Tail(queue)
    /\ UNCHANGED <<mnemonic, privKey, pubKey, sampleLegacyTransaction, sampleEIP1559Transaction,
                   signedLegacySample, signedEIP1559Sample, recoveredLegacyAddress,
                   recoveredEIP1559Address, lastError, callVars>>

\* watch.signedLegacySample writing the recovered address to both fields.
watch_signedLegacySample_both ==
    /\ queue # <<>> /\ Head(queue) = "signedLegacySample"
    /\ LET recovered == getSignerAddress(signedLegacySample)
       IN  IF recovered.threw
           THEN /\ lastError' = recovered.msg
                /\ UNCHANGED <<recoveredLegacyAddress, recoveredEIP1559Address>>
           ELSE /\ recoveredLegacyAddress' = recovered.val
                /\ recoveredEIP1559Address' = recovered.val
                /\ UNCHANGED lastError
    /\ queue' = Tail(queue)
    /\ UNCHANGED <<mnemonic, privKey, pubKey, ETHaddress, sampleLegacyTransaction,
                   sampleEIP1559Transaction, signedLegacySample, signedEIP1559Sample,
                   recoveredAddress, callVars>>

\* watch.signedLegacySample
watch_signedLegacySample ==
    /\ queue # <<>> /\ Head(queue) = "signedLegacySample"
    /\ LET recovered == getSignerAddress(signedLegacySample)
       IN  IF recovered.threw
           THEN /\ lastError' = recovered.msg
                /\ UNCHANGED recoveredLegacyAddress
           ELSE /\ recoveredLegacyAddress' = recovered.val
                /\ UNCHANGED lastError
    /\ queue' = Tail(queue)
    /\ UNCHANGED <<mnemonic, privKey, pubKey, ETHaddress, sampleLegacyTransaction,
                   sampleEIP1559Transaction, signedLegacySample, signedEIP1559Sample,
                   recoveredEIP1559Address, recoveredAddress, callVars>>

\* watch.signedEIP1559Sample
watch_signedEIP1559Sample ==
    /\ queue # <<>> /\ Head(queue) = "signedEIP1559Sample"
    /\ LET recovered == getSignerAddress(signedEIP1559Sample)
       IN  IF recovered.threw
           THEN /\ lastError' = recovered.msg
                /\ UNCHANGED recoveredEIP1559Address
           ELSE /\ recoveredEIP1559Address' = recovered.val
                /\ UNCHANGED lastError
    /\ queue' = Tail(queue)
    /\ UNCHANGED <<mnemonic, privKey, pubKey, ETHaddress, sampleLegacyTransaction,
                   sampleEIP1559Transaction, signedLegacySample, signedEIP1559Sample,
                   recoveredLegacyAddress, recoveredAddress, callVars>>

\* One step of the scheduler's flush: the first pending watcher runs.
Flush ==
    \/ watch_mnemonic
    \/ watch_privKey
    \/ watch_pubKey
    \/ watch_signedLegacySample
    \/ watch_signedEIP1559Sample

Next ==
    \/ generateNew
    \/ inputMnemonic
    \/ signSampleLegacyTx
    \/ signSampleEIP1559Tx
    \/ Flush

Spec == Init /\ [][Next]_vars

\* The flush is a microtask: once scheduled it runs to the end.
LiveSpec == Spec /\ WF_vars(Flush)

(***************************************************************************)
(* The functions called directly: one call of one function on arguments    *)
(* drawn from the sets below, and getSignerAddress of what a signer        *)
(* returned.                                                               *)
(***************************************************************************)
IsLegacyPayload(t) ==
    "gasPrice" \in DOMAIN t /\ {"maxFeePerGas", "maxPriorityFeePerGas"} \cap DOMAIN t = {}
IsFeeMarketPayload(t) ==
    /\ {"maxFeePerGas", "maxPriorityFeePerGas", "type"} \subseteq DOMAIN t
    /\ t.type = 2
    /\ "gasPrice" \notin DOMAIN t
IsFeelessPayload(t) ==
    {"gasPrice", "maxFeePerGas", "maxPriorityFeePerGas"} \cap DOMAIN t = {}

Calls ==
    {[NoCall EXCEPT !.fn = "generatePrivKey", !.mnemonic = m] : m \in MnemonicInputs}
        \cup {[NoCall EXCEPT !.fn = "derivePubKey", !.privKey = k] : k \in KeyInputs}
        \cup {[NoCall EXCEPT !.fn = "deriveEthAddress", !.pubKey = privateToPublic(k)] : k \in ValidKeys}
        \cup {[NoCall EXCEPT !.fn = f, !.privKey = k, !.txData = t] :
                 f \in {"signLegacyTx", "signEIP1559Tx"}, k \in KeyInputs, t \in PayloadInputs}

FnInit ==
    /\ VueInit
    /\ call \in Calls
    /\ out = Pending
    /\ signer = Pending

Called == out.msg # "pending"
Recovered == signer.msg # "pending"

call_generatePrivKey ==
    /\ call.fn = "generatePrivKey" /\ ~Called
    /\ out' = Ok(generatePrivKey(call.mnemonic))
    /\ UNCHANGED <<vueVars, call, signer>>

call_derivePubKey ==
    /\ call.fn = "derivePubKey" /\ ~Called
    /\ out' = derivePubKey(call.privKey)
    /\ UNCHANGED <<vueVars, call, signer>>

call_deriveEthAddress ==
    /\ call.fn = "deriveEthAddress" /\ ~Called
    /\ out' = Ok(deriveEthAddress(call.pubKey))
    /\ UNCHANGED <<vueVars, call, signer>>

call_signLegacyTx ==
    /\ call.fn = "signLegacyTx" /\ ~Called
    /\ out' = signLegacyTx(call.privKey, call.txData)
    /\ UNCHANGED <<vueVars, call, signer>>

call_signEIP1559Tx ==
    /\ call.fn = "signEIP1559Tx" /\ ~Called
    /\ out' = signEIP1559Tx(call.privKey, call.txData)
    /\ UNCHANGED <<vueVars, call, signer>>

call_getSignerAddress ==
    /\ call.fn \in {"signLegacyTx", "signEIP1559Tx"}
    /\ Called /\ ~out.threw /\ ~Recovered
    /\ signer' = getSignerAddress(out.val)
    /\ UNCHANGED <<vueVars, call, out>>

FnNext ==
    \/ call_generatePrivKey
    \/ call_derivePubKey
    \/ call_deriveEthAddress
    \/ call_signLegacyTx
    \/ call_signEIP1559Tx
    \/ call_getSignerAddress

FnSpec == FnInit /\ [][FnNext]_vars

(***************************************************************************)
(* The properties.                                                         *)
(***************************************************************************)
IsEmptyObject(obj) == DOMAIN obj = {}

\* The call signed a payload of the variant the signer is for.
SignedWellFormed ==
    \/ call.fn = "signLegacyTx" /\ IsLegacyPayload(call.txData)
    \/ call.fn = "signEIP1559Tx" /\ IsFeeMarketPayload(call.txData)

\* C1: for every valid private key and every well-formed payload of either
\* variant, the address recovered from the signed transaction is the address
\* derived from the key's public key.
C1_RecoveredIsDerivedAddress ==
    (SignedWellFormed /\ isValidPrivate(call.privKey) /\ Recovered)
        => /\ ~signer.threw
           /\ signer.val = deriveEthAddress(derivePubKey(call.privKey).val)

\* C2: the v of a signed legacy payload is recoveryBit + chainId*2 + 35 for
\* the chainId supplied with the payload; the v of a signed fee-market
\* payload is the recovery bit, 0 or 1.
C2_VFollowsVariant ==
    (SignedWellFormed /\ Called /\ ~out.threw /\ "chainId" \in DOMAIN call.txData)
        => IF call.fn = "signLegacyTx"
           THEN out.val.v \in {call.txData.chainId * 2 + 35, call.txData.chainId * 2 + 36}
           ELSE out.val.v \in {0, 1}

\* C3: a payload with neither gasPrice nor maxFeePerGas/maxPriorityFeePerGas
\* is rejected by both signers; no signed transaction is produced for it.
C3_FeelessPayloadRejected ==
    (call.fn \in {"signLegacyTx", "signEIP1559Tx"} /\ IsFeelessPayload(call.txData) /\ Called)
        => out.threw

\* C4: no private key is derived from a mnemonic that fails validation.
C4_InvalidMnemonicYieldsNoKey ==
    (call.fn = "generatePrivKey" /\ ~validateMnemonic(call.mnemonic) /\ Called)
        => out.threw

\* C5: while the private key fails the validity check, no step changes the
\* signed samples or the recovered addresses, and a sign method invoked then
\* ends in an error and changes nothing of the data and schedules no watcher.
C5_FailedSignIsAtomic ==
    /\ [][~isValidPrivate(privKey) =>
            UNCHANGED <<signedLegacySample, signedEIP1559Sample,
                        recoveredLegacyAddress, recoveredEIP1559Address>>]_vars
    /\ [][(~isValidPrivate(privKey) /\ (signSampleLegacyTx \/ signSampleEIP1559Tx)) =>
            (lastError' # "" /\ UNCHANGED <<dataVars, queue>>)]_vars

\* A sign method was invoked with the initial empty privKey and threw.
C5_Witness ==
    /\ privKey = <<>>
    /\ lastError = "Private key must be 32 bytes in length."
    /\ IsEmptyObject(signedLegacySample) /\ IsEmptyObject(signedEIP1559Sample)

\* C6: deriveEthAddress(pubKey) is "0x" followed by the lowercase hex of the
\* last 20 bytes of the 32-byte digest of the 64-byte public key: 42
\* characters, and the call does not fail.
C6_AddressIsLast20Bytes ==
    (call.fn = "deriveEthAddress" /\ Called)
        => /\ ~out.threw
           /\ Len(call.pubKey) = 64
           /\ Len(keccak256Buf(call.pubKey)) = 32
           /\ Len(keccak256(call.pubKey)) = 64
           /\ Len(out.val) = 42
           /\ SubSeq(out.val, 1, 2) = <<"0", "x">>
           /\ SubSeq(out.val, 3, 42) = BufToHex(SubSeq(keccak256Buf(call.pubKey), 13, 32))
           /\ \A i \in 3..42 : out.val[i] \in {HexDigits[j] : j \in 1..16}

\* deriveEthAddress was applied to the public key of a valid private key.
C6_Witness == call.fn = "deriveEthAddress" /\ Called /\ Len(out.val) = 42

\* C8: whenever all watchers have run, a non-empty recovered address (of
\* either variant) equals ETHaddress.
C8_RecoveredMatchesAddress ==
    Idle => /\ (recoveredLegacyAddress # <<>> => recoveredLegacyAddress = ETHaddress)
            /\ (recoveredEIP1559Address # <<>> => recoveredEIP1559Address = ETHaddress)

\* The same with the doubled "0x" of getSignerAddress discounted: what
\* the missing reset in watch.pubKey alone breaks.
C8_RecoveredMatchesAddressModuloPrefix ==
    Idle => /\ (recoveredLegacyAddress # <<>> => recoveredLegacyAddress = <<"0", "x">> \o ETHaddress)
            /\ (recoveredEIP1559Address # <<>> => recoveredEIP1559Address = <<"0", "x">> \o ETHaddress)

\* The derived fields are those of the current mnemonic.
Derived ==
    /\ privKey = generatePrivKey(mnemonic)
    /\ isValidPrivate(privKey)
    /\ pubKey = privateToPublic(privKey)
    /\ ETHaddress = deriveEthAddress(pubKey)

\* Nothing was derived yet: the initial values.
Untouched == mnemonic = <<>> /\ privKey = <<>> /\ pubKey = <<>> /\ ETHaddress = <<>>

\* The cascade runs mnemonic -> privKey -> pubKey -> ETHaddress: each
\* watcher updates its field from the one before and hands over to the next.
CascadeOrder ==
    /\ (queue # <<>> /\ Head(queue) = "mnemonic") =>
          /\ privKey' = generatePrivKey(mnemonic)
          /\ queue' # <<>> /\ Head(queue') = "privKey"
          /\ UNCHANGED <<mnemonic, pubKey, ETHaddress>>
    /\ (queue # <<>> /\ Head(queue) = "privKey") =>
          /\ pubKey' = privateToPublic(privKey)
          /\ queue' # <<>> /\ Head(queue') = "pubKey"
          /\ UNCHANGED <<mnemonic, privKey, ETHaddress>>
    /\ (queue # <<>> /\ Head(queue) = "pubKey") =>
          /\ ETHaddress' = deriveEthAddress(pubKey)
          /\ queue' = <<>>
          /\ UNCHANGED <<mnemonic, privKey, pubKey>>

\* A sign method that runs on settled state signs with the key of the
\* current mnemonic.
SignUsesCurrentKey ==
    /\ (Derived /\ signSampleLegacyTx) =>
          signedLegacySample' = signLegacyTx(generatePrivKey(mnemonic), sampleLegacyTransaction).val
    /\ (Derived /\ signSampleEIP1559Tx) =>
          signedEIP1559Sample' = signEIP1559Tx(generatePrivKey(mnemonic), sampleEIP1559Transaction).val

\* C9: every change of mnemonic schedules the cascade; the watchers run in
\* the order mnemonic, privKey, pubKey; pending watchers eventually have all
\* run, and then privKey, pubKey and ETHaddress are those of the mnemonic; a
\* sign method that runs then uses the private key of the current mnemonic.
C9_CascadeConverges ==
    /\ [](Idle => (Derived \/ Untouched))
    /\ [][mnemonic' # mnemonic => queue' = <<"mnemonic">>]_vars
    /\ [][CascadeOrder]_vars
    /\ (~Idle ~> (Idle /\ Derived))
    /\ [][SignUsesCurrentKey]_vars

\* A mnemonic was set, the cascade has run, and the legacy sample was signed
\* with the derived key.
C9_Witness ==
    /\ Idle /\ Derived /\ mnemonic # <<>>
    /\ ~IsEmptyObject(signedLegacySample)
    /\ signedLegacySample = signLegacyTx(generatePrivKey(mnemonic), sampleLegacyTransaction).val

LegacyFrame ==
    UNCHANGED <<mnemonic, privKey, pubKey, ETHaddress, sampleLegacyTransaction,
                sampleEIP1559Transaction, signedEIP1559Sample, recoveredEIP1559Address>>
EIP1559Frame ==
    UNCHANGED <<mnemonic, privKey, pubKey, ETHaddress, sampleLegacyTransaction,
                sampleEIP1559Transaction, signedLegacySample, recoveredLegacyAddress>>

\* C10: signSampleLegacyTx and the watcher of signedLegacySample change
\* neither mnemonic, privKey, pubKey, ETHaddress, the unsigned samples, nor
\* the fee-market signed sample and recovered address; signSampleEIP1559Tx
\* and its watcher likewise leave the legacy ones; the method itself changes
\* no recovered address and the watcher no signed sample.
C10_SigningFrame ==
    /\ [][(signSampleLegacyTx \/ watch_signedLegacySample) => LegacyFrame]_vars
    /\ [][(signSampleEIP1559Tx \/ watch_signedEIP1559Sample) => EIP1559Frame]_vars
    /\ [][(signSampleLegacyTx \/ signSampleEIP1559Tx) =>
            UNCHANGED <<recoveredLegacyAddress, recoveredEIP1559Address>>]_vars
    /\ [][(watch_signedLegacySample \/ watch_signedEIP1559Sample) =>
            UNCHANGED <<signedLegacySample, signedEIP1559Sample>>]_vars

\* The legacy sample was signed and its signer recovered while the
\* fee-market sample and recovered address still have their initial values.
C10_Witness ==
    /\ Idle
    /\ ~IsEmptyObject(signedLegacySample) /\ recoveredLegacyAddress # <<>>
    /\ IsEmptyObject(signedEIP1559Sample) /\ recoveredEIP1559Address = <<>>

====
